---- MODULE Spec2Model ----
(***************************************************************************)
(* apply_hit_or_miss of src/main.py as a state machine: one action per     *)
(* statement group of the function, the rasters as matrices indexed from   *)
(* 0 (row y, column x) as numpy indexes them, and the OpenCV primitives    *)
(* (threshold, getStructuringElement, erode, bitwise_not, bitwise_and)     *)
(* as operators computing what the calls compute on 8-bit rasters.         *)
(***************************************************************************)
EXTENDS Integers, Sequences, FiniteSets, TLC

VARIABLES image_path, output_dir, disk, pc, image_gray, binary_image,
          hit_kernel, miss_kernel, erosion_hit, complement_image,
          erosion_miss, hit_or_miss_result, base_filename, figure, files,
          out, stages

vars == <<image_path, output_dir, disk, pc, image_gray, binary_image,
          hit_kernel, miss_kernel, erosion_hit, complement_image,
          erosion_miss, hit_or_miss_result, base_filename, figure, files,
          out, stages>>

\* image_path, output_dir: the arguments. disk: what the file at image_path
\* decodes to (None when it cannot be read). pc: the statement group to run
\* next. image_gray .. base_filename: the locals of the function, None until
\* assigned. figure: the figure plt.show() displayed. files: the files the
\* run has written, as path and content (the output directory is taken to
\* exist). out: the lines printed. stages: the statement groups run so far,
\* in order.

(* ---------------------------------------------------------------- values *)

\* Python's None, and the value of a local not assigned yet.
None == <<>>

\* cv2.threshold(image_gray, 150, 255, cv2.THRESH_BINARY): thresh and maxval.
Thresh == 150
MaxVal == 255

\* ksize of the two cv2.getStructuringElement calls, and the carved slice
\* miss_kernel[10:30, 10:30].
HitSize == 20
MissSize == 40
CarveLo == 10
CarveHi == 30

Rows(m) == DOMAIN m
Cols(m) == DOMAIN m[0]
Height(m) == Cardinality(DOMAIN m)
Width(m) == Cardinality(DOMAIN m[0])

(* ------------------------------------------------------------ primitives *)

\* Mutant: the comparison taken as "at least".
threshold_ge(src, thresh, maxval) ==
  [y \in Rows(src) |-> [x \in Cols(src) |->
      IF src[y][x] >= thresh THEN maxval ELSE 0]]

\* cv2.threshold with THRESH_BINARY: dst = maxval where src > thresh, else 0.
threshold(src, thresh, maxval) ==
  [y \in Rows(src) |-> [x \in Cols(src) |->
      IF src[y][x] > thresh THEN maxval ELSE 0]]

Abs(a) == IF a < 0 THEN 0 - a ELSE a

\* Row dy of the ellipse holds ones in the columns within
\* dx = cvRound(c * sqrt((r*r - dy*dy) / (r*r))) of the centre column c:
\* whether d <= dx, that is d - 1/2 <= c * sqrt(r*r - dy*dy) / r.
WithinDx(r, c, dy, d) ==
  d = 0 \/ (2*d - 1) * (2*d - 1) * r * r <= 4 * c * c * (r*r - dy*dy)

\* cv2.getStructuringElement(cv2.MORPH_ELLIPSE, (w, h)): row i holds ones in
\* columns max(c - dx, 0) .. min(c + dx + 1, w) - 1, with r = h/2, c = w/2
\* and dx that of row dy = i - r.
getStructuringElement(w, h) ==
  [i \in 0..(h - 1) |-> [j \in 0..(w - 1) |->
      IF WithinDx(h \div 2, w \div 2, i - h \div 2, Abs(j - w \div 2))
      THEN 1 ELSE 0]]

\* Mutant: the slice starting one row and column late.
CarveOut_late(kernel, lo, hi) ==
  [i \in DOMAIN kernel |-> [j \in DOMAIN kernel[0] |->
      IF lo < i /\ i < hi /\ lo < j /\ j < hi THEN 0 ELSE kernel[i][j]]]

\* Mutant: the slice assignment left out.
CarveOut_none(kernel, lo, hi) == kernel

\* kernel[lo:hi, lo:hi] = 0 on a numpy array.
CarveOut(kernel, lo, hi) ==
  [i \in Rows(kernel) |-> [j \in Cols(kernel) |->
      IF lo <= i /\ i < hi /\ lo <= j /\ j < hi THEN 0 ELSE kernel[i][j]]]

SetMin(S) == CHOOSE m \in S : \A n \in S : m <= n

\* Mutant: a border of zeros, so that a kernel cell outside the raster
\* defeats the erosion.
erode_zero_border(src, kernel) ==
  LET ay == Cardinality(DOMAIN kernel) \div 2
      ax == Cardinality(DOMAIN kernel[0]) \div 2
  IN  [y \in DOMAIN src |-> [x \in DOMAIN src[0] |->
        IF \A i \in DOMAIN kernel : \A j \in DOMAIN kernel[0] :
             kernel[i][j] = 0
               \/ /\ y + i - ay \in DOMAIN src
                  /\ x + j - ax \in DOMAIN src[0]
                  /\ src[y + i - ay][x + j - ax] = 255
        THEN 255 ELSE 0]]

\* cv2.erode(src, kernel, iterations=1) with the default anchor (the kernel
\* centre, ksize/2) and the default border (BORDER_CONSTANT with
\* morphologyDefaultBorderValue, which erosion reads as the largest value):
\* dst(y,x) is the minimum of src over the non-zero kernel cells aligned at
\* (y,x), a cell outside the raster counting as 255. The minimum is 255 when
\* every covered sample is 255, 0 when one is 0, and is searched otherwise.
erode(src, kernel) ==
  LET kh == Height(kernel)
      kw == Width(kernel)
      ay == kh \div 2
      ax == kw \div 2
      h  == Height(src)
      w  == Width(src)
  IN  [y \in Rows(src) |-> [x \in Cols(src) |->
        LET ilo == IF ay - y > 0 THEN ay - y ELSE 0
            ihi == IF h - 1 - y + ay < kh - 1 THEN h - 1 - y + ay ELSE kh - 1
            jlo == IF ax - x > 0 THEN ax - x ELSE 0
            jhi == IF w - 1 - x + ax < kw - 1 THEN w - 1 - x + ax ELSE kw - 1
            Covered(v) == \E i \in ilo..ihi : \E j \in jlo..jhi :
                             kernel[i][j] # 0 /\ src[y + i - ay][x + j - ax] = v
        IN  IF \A i \in ilo..ihi :
                 LET krow == kernel[i]
                     srow == src[y + i - ay]
                 IN  \A j \in jlo..jhi : krow[j] = 0 \/ srow[x + j - ax] = 255
            THEN 255
            ELSE IF Covered(0) THEN 0
            ELSE SetMin({v \in 1..254 : Covered(v)})]]

\* Mutant: the complement left out.
bitwise_not_skip(src) == src

\* cv2.bitwise_not on 8-bit samples.
bitwise_not(src) ==
  [y \in Rows(src) |-> [x \in Cols(src) |-> 255 - src[y][x]]]

RECURSIVE BitAnd(_, _)
BitAnd(a, b) ==
  IF a = 0 \/ b = 0 THEN 0
  ELSE 2 * BitAnd(a \div 2, b \div 2) + (IF a % 2 = 1 /\ b % 2 = 1 THEN 1 ELSE 0)

RECURSIVE BitOr(_, _)
BitOr(a, b) ==
  IF a = 0 THEN b
  ELSE IF b = 0 THEN a
  ELSE 2 * BitOr(a \div 2, b \div 2) + (IF a % 2 = 1 \/ b % 2 = 1 THEN 1 ELSE 0)

\* Mutant: the union in place of the intersection.
bitwise_or(a, b) ==
  [y \in DOMAIN a |-> [x \in DOMAIN a[0] |-> BitOr(a[y][x], b[y][x])]]

\* cv2.bitwise_and on 8-bit samples.
bitwise_and(a, b) ==
  [y \in Rows(a) |-> [x \in Cols(a) |-> BitAnd(a[y][x], b[y][x])]]

(* ------------------------------------------------------------------ paths *)

\* A path is the sequence of its characters.
Sep == "/"
Prefix == <<"r", "e", "s", "u", "l", "t", "_">>

\* os.path.basename: what follows the last separator.
RECURSIVE basename(_)
basename(p) ==
  IF p = <<>> THEN <<>>
  ELSE IF p[Len(p)] = Sep THEN <<>>
  ELSE Append(basename(SubSeq(p, 1, Len(p) - 1)), p[Len(p)])

\* os.path.join(a, b) on POSIX paths.
join(a, b) ==
  IF b # <<>> /\ b[1] = Sep THEN b
  ELSE IF a = <<>> \/ a[Len(a)] = Sep THEN a \o b
  ELSE a \o <<Sep>> \o b

\* cv2.imread(image_path, cv2.IMREAD_GRAYSCALE): the decoded raster, or None.
imread(path) == disk

(* ---------------------------------------------------------------- actions *)

\* Mutant: the return after the diagnostic left out.
Load_noreturn ==
  /\ pc = "load"
  /\ image_gray' = imread(image_path)
  /\ out' = out \o <<[text |-> "Processing image", arg |-> image_path]>>
                \o (IF imread(image_path) = None
                    THEN <<[text |-> "Error: Could not load image at",
                            arg |-> image_path]>>
                    ELSE <<>>)
  /\ pc' = "threshold"
  /\ stages' = Append(stages, "load")
  /\ UNCHANGED <<image_path, output_dir, disk, binary_image, hit_kernel,
                 miss_kernel, erosion_hit, complement_image, erosion_miss,
                 hit_or_miss_result, base_filename, figure, files>>

\* Lines 11-16: announce, read, and return at once when nothing was read.
Load ==
  /\ pc = "load"
  /\ image_gray' = imread(image_path)
  /\ out' = out \o <<[text |-> "Processing image", arg |-> image_path]>>
                \o (IF imread(image_path) = None
                    THEN <<[text |-> "Error: Could not load image at",
                            arg |-> image_path]>>
                    ELSE <<>>)
  /\ pc' = IF imread(image_path) = None THEN "done" ELSE "threshold"
  /\ stages' = Append(stages, "load")
  /\ UNCHANGED <<image_path, output_dir, disk, binary_image, hit_kernel,
                 miss_kernel, erosion_hit, complement_image, erosion_miss,
                 hit_or_miss_result, base_filename, figure, files>>

\* Line 21.
Threshold ==
  /\ pc = "threshold"
  /\ binary_image' = threshold(image_gray, Thresh, MaxVal)
  /\ pc' = "kernels"
  /\ stages' = Append(stages, "threshold")
  /\ UNCHANGED <<image_path, output_dir, disk, image_gray, hit_kernel,
                 miss_kernel, erosion_hit, complement_image, erosion_miss,
                 hit_or_miss_result, base_filename, figure, files, out>>

\* Lines 26-32.
Kernels ==
  /\ pc = "kernels"
  /\ hit_kernel' = getStructuringElement(HitSize, HitSize)
  /\ miss_kernel' = CarveOut(getStructuringElement(MissSize, MissSize),
                             CarveLo, CarveHi)
  /\ pc' = "erode_hit"
  /\ stages' = Append(stages, "kernels")
  /\ UNCHANGED <<image_path, output_dir, disk, image_gray, binary_image,
                 erosion_hit, complement_image, erosion_miss,
                 hit_or_miss_result, base_filename, figure, files, out>>

\* Line 36.
ErodeHit ==
  /\ pc = "erode_hit"
  /\ erosion_hit' = erode(binary_image, hit_kernel)
  /\ pc' = "complement"
  /\ stages' = Append(stages, "erode_hit")
  /\ UNCHANGED <<image_path, output_dir, disk, image_gray, binary_image,
                 hit_kernel, miss_kernel, complement_image, erosion_miss,
                 hit_or_miss_result, base_filename, figure, files, out>>

\* Line 40.
Complement ==
  /\ pc = "complement"
  /\ complement_image' = bitwise_not(binary_image)
  /\ pc' = "erode_miss"
  /\ stages' = Append(stages, "complement")
  /\ UNCHANGED <<image_path, output_dir, disk, image_gray, binary_image,
                 hit_kernel, miss_kernel, erosion_hit, erosion_miss,
                 hit_or_miss_result, base_filename, figure, files, out>>

\* Line 42.
ErodeMiss ==
  /\ pc = "erode_miss"
  /\ erosion_miss' = erode(complement_image, miss_kernel)
  /\ pc' = "combine"
  /\ stages' = Append(stages, "erode_miss")
  /\ UNCHANGED <<image_path, output_dir, disk, image_gray, binary_image,
                 hit_kernel, miss_kernel, erosion_hit, complement_image,
                 hit_or_miss_result, base_filename, figure, files, out>>

\* Mutant: the miss pass left out of the result.
Combine_hit ==
  /\ pc = "combine"
  /\ hit_or_miss_result' = erosion_hit
  /\ pc' = "display"
  /\ stages' = Append(stages, "combine")
  /\ UNCHANGED <<image_path, output_dir, disk, image_gray, binary_image,
                 hit_kernel, miss_kernel, erosion_hit, complement_image,
                 erosion_miss, base_filename, figure, files, out>>

\* Line 47.
Combine ==
  /\ pc = "combine"
  /\ hit_or_miss_result' = bitwise_and(erosion_hit, erosion_miss)
  /\ pc' = "display"
  /\ stages' = Append(stages, "combine")
  /\ UNCHANGED <<image_path, output_dir, disk, image_gray, binary_image,
                 hit_kernel, miss_kernel, erosion_hit, complement_image,
                 erosion_miss, base_filename, figure, files, out>>

\* Mutant: a return after plt.show().
Display_return ==
  /\ pc = "display"
  /\ base_filename' = basename(image_path)
  /\ figure' = [panels |-> <<[title |-> "Original", image |-> image_gray],
                             [title |-> "Structured element",
                              image |-> binary_image],
                             [title |-> "Image after Erosion",
                              image |-> erosion_miss]>>,
                suptitle |-> basename(image_path)]
  /\ pc' = "done"
  /\ stages' = Append(stages, "display")
  /\ UNCHANGED <<image_path, output_dir, disk, image_gray, binary_image,
                 hit_kernel, miss_kernel, erosion_hit, complement_image,
                 erosion_miss, hit_or_miss_result, files, out>>

\* Lines 50-62: the three titled panels, the figure title, plt.show().
Display ==
  /\ pc = "display"
  /\ base_filename' = basename(image_path)
  /\ figure' = [panels |-> <<[title |-> "Original", image |-> image_gray],
                             [title |-> "Structured element",
                              image |-> binary_image],
                             [title |-> "Image after Erosion",
                              image |-> erosion_miss]>>,
                suptitle |-> basename(image_path)]
  /\ pc' = "save"
  /\ stages' = Append(stages, "display")
  /\ UNCHANGED <<image_path, output_dir, disk, image_gray, binary_image,
                 hit_kernel, miss_kernel, erosion_hit, complement_image,
                 erosion_miss, hit_or_miss_result, files, out>>

\* Mutant: the displayed intermediate written in place of the result.
Save_miss ==
  /\ pc = "save"
  /\ LET output_path == join(output_dir, Prefix \o base_filename)
     IN  /\ files' = {f \in files : f.path # output_path}
                       \cup {[path |-> output_path, data |-> erosion_miss]}
         /\ out' = Append(out, [text |-> "Result saved to", arg |-> output_path])
  /\ pc' = "done"
  /\ stages' = Append(stages, "save")
  /\ UNCHANGED <<image_path, output_dir, disk, image_gray, binary_image,
                 hit_kernel, miss_kernel, erosion_hit, complement_image,
                 erosion_miss, hit_or_miss_result, base_filename, figure>>

\* Lines 65-67.
Save ==
  /\ pc = "save"
  /\ LET output_path == join(output_dir, Prefix \o base_filename)
     IN  /\ files' = {f \in files : f.path # output_path}
                       \cup {[path |-> output_path, data |-> hit_or_miss_result]}
         /\ out' = Append(out, [text |-> "Result saved to", arg |-> output_path])
  /\ pc' = "done"
  /\ stages' = Append(stages, "save")
  /\ UNCHANGED <<image_path, output_dir, disk, image_gray, binary_image,
                 hit_kernel, miss_kernel, erosion_hit, complement_image,
                 erosion_miss, hit_or_miss_result, base_filename, figure>>

Next ==
  \/ Load
  \/ Threshold
  \/ Kernels
  \/ ErodeHit
  \/ Complement
  \/ ErodeMiss
  \/ Combine
  \/ Display
  \/ Save

\* The state at the call apply_hit_or_miss(path, dir) with the file at path
\* decoding to content (None: it cannot be read).
Entry(path, dir, content) ==
  /\ image_path = path
  /\ output_dir = dir
  /\ disk = content
  /\ pc = "load"
  /\ image_gray = None
  /\ binary_image = None
  /\ hit_kernel = None
  /\ miss_kernel = None
  /\ erosion_hit = None
  /\ complement_image = None
  /\ erosion_miss = None
  /\ hit_or_miss_result = None
  /\ base_filename = None
  /\ figure = None
  /\ files = {}
  /\ out = <<>>
  /\ stages = <<>>

(* ----------------------------------------------------------------- inputs *)

\* Samples on both sides of the threshold, and the two extremes.
Samples == {0, Thresh - 1, Thresh, Thresh + 1, 255}

\* Bounds of the rasters the general specification reads.
MaxRow == 2
MaxSide == 22

Uniform(h, w, v) == [y \in 0..(h - 1) |-> [x \in 0..(w - 1) |-> v]]

\* One-row rasters of every sample combination.
RowRasters ==
  UNION {[{0} -> [0..(w - 1) -> Samples]] : w \in 1..MaxRow}

\* Uniform squares of every side, at the threshold and just above it.
SquareRasters ==
  {Uniform(n, n, v) : n \in 1..MaxSide, v \in {Thresh, Thresh + 1}}

\* An n*n raster holding a bh*bw rectangle of level hi at (y0,x0) on level lo.
Blob(n, y0, x0, bh, bw, hi, lo) ==
  [y \in 0..(n - 1) |-> [x \in 0..(n - 1) |->
      IF y0 <= y /\ y < y0 + bh /\ x0 <= x /\ x < x0 + bw THEN hi ELSE lo]]

\* Rectangles one cell smaller than, equal to and one cell larger than the
\* 20x20 square the miss kernel leaves free.
BlobRasters ==
  {Blob(MaxSide, o[1], o[2], b[1], b[2], l[1], l[2]) :
     o \in (0..1) \X (0..1),
     b \in {d \in ((HitSize - 1)..(HitSize + 1)) \X ((HitSize - 1)..(HitSize + 1)) :
              d[1] + 1 <= MaxSide /\ d[2] + 1 <= MaxSide},
     l \in {<<255, 0>>, <<Thresh + 1, Thresh>>}}

\* An n*n raster holding the shape of the hit ellipse at (y0,x0).
EllipseBlob(n, y0, x0) ==
  LET e == getStructuringElement(HitSize, HitSize)
  IN  [y \in 0..(n - 1) |-> [x \in 0..(n - 1) |->
        IF /\ y0 <= y /\ y < y0 + HitSize /\ x0 <= x /\ x < x0 + HitSize
           /\ e[y - y0][x - x0] = 1
        THEN 255 ELSE 0]]

EllipseRasters ==
  {EllipseBlob(MaxSide, o[1], o[2]) : o \in (0..1) \X (0..1)}

Paths == {<<"a">>, <<"d", "/", "a">>}
Dirs == {<<>>, <<"r">>, <<"r", "/">>}

\* Every path and directory with the small contents, one path and directory
\* with the large ones.
Inputs ==
  (Paths \X Dirs \X ({None} \cup RowRasters))
    \cup ({<<"d", "/", "a">>} \X {<<"r">>}
            \X (SquareRasters \cup BlobRasters \cup EllipseRasters))

Init == \E in \in Inputs : Entry(in[1], in[2], in[3])

Spec == Init /\ [][Next]_vars

\* A solid disk of radius 15 centred at (50,50) on a 100x100 raster.
DiskRaster(hi, lo) ==
  [y \in 0..99 |-> [x \in 0..99 |->
      IF (x - 50) * (x - 50) + (y - 50) * (y - 50) <= 15 * 15 THEN hi ELSE lo]]

DiskRasters ==
  {DiskRaster(hi, lo) : hi \in {Thresh + 1, 200, 254, 255},
                        lo \in {0, 100, Thresh}}

InitDisk ==
  \E content \in {None} \cup DiskRasters :
     Entry(<<"d", "/", "a">>, <<"r">>, content)

SpecDisk == InitDisk /\ [][Next]_vars

\* Uniform 50x50 rasters.
UniformRasters ==
  {Uniform(50, 50, v) : v \in {0, 1, 100, Thresh - 1, Thresh, Thresh + 1,
                               Thresh + 2, 200, 254, 255}}

InitUniform ==
  \E content \in {None} \cup UniformRasters :
     Entry(<<"d", "/", "a">>, <<"r">>, content)

SpecUniform == InitUniform /\ [][Next]_vars

(* ----------------------------------------------------------------- claims *)

\* Every kernel cell that is set and lies over the raster at (y,x) lies
\* over a sample of 255.
Fits(src, kernel, y, x) ==
  LET ay == Cardinality(DOMAIN kernel) \div 2
      ax == Cardinality(DOMAIN kernel[0]) \div 2
  IN  \A v \in DOMAIN src : \A u \in DOMAIN src[0] :
        ( /\ v - y + ay \in DOMAIN kernel
          /\ u - x + ax \in DOMAIN kernel[0]
          /\ kernel[v - y + ay][u - x + ax] # 0 ) => src[v][u] = 255

\* Every kernel cell that is set lies over the raster at (y,x), and over a
\* sample of 255: a kernel cell outside the raster counts as background.
FitsInside(src, kernel, y, x) ==
  LET ay == Cardinality(DOMAIN kernel) \div 2
      ax == Cardinality(DOMAIN kernel[0]) \div 2
  IN  \A i \in DOMAIN kernel : \A j \in DOMAIN kernel[0] :
        kernel[i][j] # 0 =>
          /\ y + i - ay \in DOMAIN src
          /\ x + j - ax \in DOMAIN src[0]
          /\ src[y + i - ay][x + j - ax] = 255

\* C1, as the claim states it: once the raster is binarized, a cell of the
\* BinaryMask is 255 if and only if the raster's sample there is at least
\* 150, and is 0 otherwise.
C1_ThresholdAtLeast ==
  binary_image # None =>
    \A y \in DOMAIN image_gray : \A x \in DOMAIN image_gray[0] :
      binary_image[y][x] = IF image_gray[y][x] >= 150 THEN 255 ELSE 0

\* C1, amended: the BinaryMask has the raster's cells, and a cell is 255 if
\* and only if the raster's sample there is greater than 150, and is 0
\* otherwise; a sample of exactly 150 maps to 0.
C1_ThresholdStrict ==
  binary_image # None =>
    /\ DOMAIN binary_image = DOMAIN image_gray
    /\ \A y \in DOMAIN image_gray :
         /\ DOMAIN binary_image[y] = DOMAIN image_gray[y]
         /\ \A x \in DOMAIN image_gray[y] :
              binary_image[y][x] = IF image_gray[y][x] > 150 THEN 255 ELSE 0

C1_Witness ==
  /\ binary_image # None
  /\ \E y \in DOMAIN image_gray : \E x \in DOMAIN image_gray[0] :
       image_gray[y][x] = 150 /\ binary_image[y][x] = 0
  /\ \E y \in DOMAIN image_gray : \E x \in DOMAIN image_gray[0] :
       image_gray[y][x] = 151 /\ binary_image[y][x] = 255

\* C2: when nothing can be read at the path, the run goes from the load
\* straight to its end, having printed the diagnostic that names the path,
\* and no later stage has run: no mask, kernel or erosion was computed, no
\* figure shown and no file written.
C2_LoadFailureReturns ==
  disk = None =>
    /\ pc \in {"load", "done"}
    /\ pc = "done" =>
         /\ out = <<[text |-> "Processing image", arg |-> image_path],
                    [text |-> "Error: Could not load image at",
                     arg |-> image_path]>>
         /\ stages = <<"load">>
    /\ image_gray = None
    /\ binary_image = None
    /\ hit_kernel = None
    /\ miss_kernel = None
    /\ erosion_hit = None
    /\ complement_image = None
    /\ erosion_miss = None
    /\ hit_or_miss_result = None
    /\ figure = None
    /\ files = {}

C2_Witness == disk = None /\ pc = "done" /\ Len(out) = 2

\* The cells of the disk scenario that lie within 10 cells of both edges
\* meeting at a corner.
CornerCells ==
  {c \in (0..99) \X (0..99) : c[1] \notin 10..89 /\ c[2] \notin 10..89}

\* C3, as the claim states it: for the 100x100 raster with the disk of
\* radius 15 at (50,50), the DetectionMask has foreground, its foreground
\* lies around (50,50), and it has none at the corners.
C3_DiskDetected ==
  (pc = "done" /\ disk # None) =>
    /\ \E y \in 0..99 : \E x \in 0..99 : hit_or_miss_result[y][x] # 0
    /\ \A y \in 0..99 : \A x \in 0..99 :
         hit_or_miss_result[y][x] # 0 => (y \in 35..65 /\ x \in 35..65)
    /\ \A c \in CornerCells : hit_or_miss_result[c[1]][c[2]] = 0

\* C3, amended: for that raster the DetectionMask has no foreground at all,
\* at the corners or elsewhere: the hit-erosion is foreground around
\* (50,50), but wherever it is foreground the miss-erosion is background,
\* the disk of width 31 reaching outside the 20x20 square the ring leaves
\* free.
C3_DiskNotDetected ==
  (pc = "done" /\ disk # None) =>
    /\ \A y \in 0..99 : \A x \in 0..99 : hit_or_miss_result[y][x] = 0
    /\ erosion_hit[50][50] = 255
    /\ \A y \in 0..99 : \A x \in 0..99 :
         erosion_hit[y][x] # 0 =>
           (y \in 35..65 /\ x \in 35..65 /\ erosion_miss[y][x] = 0)

C3_Witness ==
  /\ pc = "done"
  /\ disk # None
  /\ image_gray[50][50] > 150
  /\ image_gray[50][66] <= 150
  /\ erosion_hit[50][50] = 255
  /\ erosion_miss[0][0] = 255

\* C4: at the end of a run a cell of the DetectionMask is foreground if and
\* only if the hit kernel fits the BinaryMask there and the miss kernel fits
\* the complement of the BinaryMask there; the complement flips every cell
\* of the BinaryMask, and combining the result with either erosion again
\* gives the result.
C4_ResultIsIntersection ==
  (pc = "done" /\ disk # None) =>
    /\ \A y \in DOMAIN binary_image : \A x \in DOMAIN binary_image[0] :
         /\ complement_image[y][x] = 255 - binary_image[y][x]
         /\ hit_or_miss_result[y][x] # 0 <=>
              (erosion_hit[y][x] # 0 /\ erosion_miss[y][x] # 0)
         /\ hit_or_miss_result[y][x] # 0 <=>
              ( /\ Fits(binary_image, hit_kernel, y, x)
                /\ Fits(complement_image, miss_kernel, y, x) )
    /\ bitwise_and(hit_or_miss_result, erosion_hit) = hit_or_miss_result
    /\ bitwise_and(hit_or_miss_result, erosion_miss) = hit_or_miss_result

\* A run whose mask has a foreground cell, a cell where only the hit-erosion
\* is foreground and a cell where only the miss-erosion is.
C4_Witness ==
  /\ pc = "done"
  /\ disk # None
  /\ \E y \in DOMAIN binary_image : \E x \in DOMAIN binary_image[0] :
       hit_or_miss_result[y][x] # 0
  /\ \E y \in DOMAIN binary_image : \E x \in DOMAIN binary_image[0] :
       erosion_hit[y][x] # 0 /\ erosion_miss[y][x] = 0
  /\ \E y \in DOMAIN binary_image : \E x \in DOMAIN binary_image[0] :
       erosion_hit[y][x] = 0 /\ erosion_miss[y][x] # 0

\* C5: for a uniform 50x50 raster the DetectionMask is all zero; the all-0
\* raster gives an all-0 BinaryMask, the all-255 raster an all-255
\* BinaryMask, an all-0 complement and an all-0 miss-erosion, at the border
\* cells too.
C5_UniformGivesEmptyMask ==
  (pc = "done" /\ disk # None) =>
    /\ hit_or_miss_result = Uniform(50, 50, 0)
    /\ image_gray = Uniform(50, 50, 0) => binary_image = Uniform(50, 50, 0)
    /\ image_gray = Uniform(50, 50, 255) =>
         /\ binary_image = Uniform(50, 50, 255)
         /\ complement_image = Uniform(50, 50, 0)
         /\ erosion_miss = Uniform(50, 50, 0)

\* The all-255 run, whose hit-erosion is foreground up to the corner.
C5_Witness ==
  /\ pc = "done"
  /\ image_gray = Uniform(50, 50, 255)
  /\ erosion_hit[0][0] = 255
  /\ erosion_miss[0][0] = 0

\* C6: once built, the miss kernel is a 40x40 grid that is 0 in rows 10..29
\* and columns 10..29 and equal to the 40x40 ellipse everywhere else, and
\* the hit kernel is the whole 20x20 ellipse.
C6_MissKernelIsCarvedRing ==
  miss_kernel # None =>
    /\ DOMAIN miss_kernel = 0..39
    /\ \A base \in {getStructuringElement(40, 40)} : \A i \in 0..39 :
         /\ DOMAIN miss_kernel[i] = 0..39
         /\ \A j \in 0..39 :
              miss_kernel[i][j] =
                IF i \in 10..29 /\ j \in 10..29 THEN 0 ELSE base[i][j]
    /\ hit_kernel = getStructuringElement(20, 20)

\* The kernels are built, the ellipse held ones in the carved square, and
\* ones remain around it.
C6_Witness ==
  /\ miss_kernel # None
  /\ getStructuringElement(40, 40)[10][10] = 1
  /\ getStructuringElement(40, 40)[29][29] = 1
  /\ miss_kernel[10][10] = 0
  /\ miss_kernel[29][29] = 0
  /\ miss_kernel[9][10] = 1
  /\ miss_kernel[30][29] = 1
  /\ hit_kernel[10][10] = 1

\* What follows the last separator of p.
LastComponent(p) ==
  LET seps == {k \in 1..Len(p) : p[k] = "/"}
      last == IF seps = {} THEN 0 ELSE CHOOSE k \in seps : \A m \in seps : m <= k
  IN  [k \in 1..(Len(p) - last) |-> p[last + k]]

\* C7: no file is written before the end of the run, and a run that loaded
\* its image ends with exactly one file written: the DetectionMask, at the
\* output directory joined with "result_" and the last component of the
\* source path.
C7_OneResultFile ==
  /\ pc # "done" => files = {}
  /\ (pc = "done" /\ disk # None) =>
       files = {[path |-> (IF output_dir = <<>> \/ output_dir[Len(output_dir)] = "/"
                           THEN output_dir ELSE Append(output_dir, "/"))
                            \o <<"r", "e", "s", "u", "l", "t", "_">>
                            \o LastComponent(image_path),
                 data |-> hit_or_miss_result]}

\* The source path has a directory, and the mask written differs from the
\* miss-erosion shown.
C7_Witness ==
  /\ pc = "done"
  /\ disk # None
  /\ Len(LastComponent(image_path)) < Len(image_path)
  /\ hit_or_miss_result # erosion_miss
  /\ Cardinality(files) = 1

\* C8, as the claim states it: a cell of either erosion is foreground only
\* if every cell under the structuring element aligned there lies inside
\* the raster and is foreground in the eroded raster.
C8_BorderIsBackground ==
  pc = "combine" =>
    \A y \in DOMAIN binary_image : \A x \in DOMAIN binary_image[0] :
      /\ erosion_hit[y][x] # 0 => FitsInside(binary_image, hit_kernel, y, x)
      /\ erosion_miss[y][x] # 0 =>
           FitsInside(complement_image, miss_kernel, y, x)

\* C8, amended: a cell of the hit-erosion is foreground if and only if every
\* cell under the hit structuring element aligned there that lies inside
\* the raster is foreground in the BinaryMask, the cells outside the raster
\* being ignored, so that a cell next to a grid edge can be foreground; the
\* miss-erosion follows the same rule on the complement.
C8_BorderIsIgnored ==
  pc = "combine" =>
    \A y \in DOMAIN binary_image : \A x \in DOMAIN binary_image[0] :
      /\ erosion_hit[y][x] \in {0, 255}
      /\ erosion_miss[y][x] \in {0, 255}
      /\ erosion_hit[y][x] = 255 <=> Fits(binary_image, hit_kernel, y, x)
      /\ erosion_miss[y][x] = 255 <=> Fits(complement_image, miss_kernel, y, x)

\* Both erosions are foreground in a corner of a raster that has more than
\* one cell, and both have background cells too.
C8_Witness ==
  /\ pc = "combine"
  /\ Cardinality(DOMAIN binary_image) > 1
  /\ erosion_hit[0][0] = 255
  /\ \E y \in DOMAIN binary_image : \E x \in DOMAIN binary_image[0] :
       erosion_miss[y][x] = 0
  /\ \E y \in DOMAIN binary_image : \E x \in DOMAIN binary_image[0] :
       /\ erosion_miss[y][x] = 255
       /\ \E v \in DOMAIN binary_image : \E u \in DOMAIN binary_image[0] :
            complement_image[v][u] = 0

StageOrder ==
  <<"load", "threshold", "kernels", "erode_hit", "complement", "erode_miss",
    "combine", "display", "save">>

\* C9: the stages run are always an initial part of load, threshold,
\* kernels, hit-erosion, complement, miss-erosion, combine, display, save,
\* each once; a run that loaded its image ends after all nine, a run that
\* did not ends after the load; an unended run is at the stage that follows
\* the ones it has run and an ended run takes no further step; a file or the
\* "Result saved" message exists only once the figure has been shown.
C9_LinearPipeline ==
  /\ Len(stages) <= Len(StageOrder)
  /\ stages = [k \in 1..Len(stages) |-> StageOrder[k]]
  /\ pc = "done" => stages = (IF disk = None THEN <<"load">> ELSE StageOrder)
  /\ pc = "done" => ~ENABLED Next
  /\ pc # "done" => pc = StageOrder[Len(stages) + 1]
  /\ (files # {} \/ \E k \in 1..Len(out) : out[k].text = "Result saved to") =>
       (figure # None /\ pc = "done")

C9_Witness ==
  /\ pc = "done"
  /\ disk # None
  /\ stages = StageOrder
  /\ files # {}
  /\ out[Len(out)].text = "Result saved to"

\* C10: at the end of a run every cell of the DetectionMask is 0 or 255 and
\* every foreground cell of it is a foreground cell of the BinaryMask; the
\* hit kernel is set at its anchor and the miss kernel is not, and a
\* foreground cell of the DetectionMask is foreground in the miss-erosion
\* although it is background in the complement.
C10_DetectionWithinForeground ==
  (pc = "done" /\ disk # None) =>
    /\ hit_kernel[10][10] = 1
    /\ miss_kernel[20][20] = 0
    /\ \A y \in DOMAIN binary_image : \A x \in DOMAIN binary_image[0] :
         /\ hit_or_miss_result[y][x] \in {0, 255}
         /\ hit_or_miss_result[y][x] = 255 =>
              /\ binary_image[y][x] = 255
              /\ complement_image[y][x] = 0
              /\ erosion_miss[y][x] = 255

\* A run that detects a cell although the raster has background too.
C10_Witness ==
  /\ pc = "done"
  /\ disk # None
  /\ \E y \in DOMAIN binary_image : \E x \in DOMAIN binary_image[0] :
       hit_or_miss_result[y][x] = 255
  /\ \E y \in DOMAIN binary_image : \E x \in DOMAIN binary_image[0] :
       binary_image[y][x] = 0

====
